---- MODULE Spec2Model ----
(***************************************************************************)
(* A model of tui_repl: the bounded command history (src/src/history.rs)   *)
(* and the line-editing Repl that consumes key events (src/src/lib.rs).    *)
(*                                                                         *)
(* Rust values are represented as follows:                                 *)
(*   Vec<char>, &[char], String   a sequence of one-character strings      *)
(*   Option<T>                    <<>> for None, <<x>> for Some(x)         *)
(*   [Vec<char>; N]               a sequence of N sequences, slot i of the *)
(*                                array being element i + 1                *)
(*   History<N>                   a record [len, cur, stored_commands]     *)
(***************************************************************************)
EXTENDS Integers, Sequences, FiniteSets, TLC

VARIABLES
    history,        \* Repl::history, or the History under test
    ctor,           \* how `history` was constructed, with the argument given
    trace,          \* the History calls made since construction
    current_input,  \* Repl::current_input
    cursor_pos,     \* Repl::cursor_pos
    text,           \* Repl::text
    key,            \* the KeyEvent of the last feed_key_event call
    exec,           \* the executor invocations that call made
    result,         \* what that call returned
    pc,             \* where run_fullscreen stands
    raw_mode,       \* the terminal is in raw mode
    alt_screen,     \* the alternate screen and mouse capture are on
    loop_ret,       \* what run_on_terminal returned
    full_ret,       \* what run_fullscreen returned
    view_text,      \* the text given to get_visible_text
    view_height,    \* the max_height given to get_visible_text
    view_out        \* what get_visible_text returned, and returned for that

vars == <<history, ctor, trace, current_input, cursor_pos, text, key, exec, result,
          pc, raw_mode, alt_screen, loop_ret, full_ret,
          view_text, view_height, view_out>>

runVars == <<pc, raw_mode, alt_screen, loop_ret, full_ret>>

viewVars == <<view_text, view_height, view_out>>

envVars == <<runVars, viewVars>>

replVars == <<current_input, cursor_pos, text, key, exec, result>>

historyVars == <<history, ctor, trace>>

----------------------------------------------------------------------------
(* Bounds of the model *)

\* Capacity of the History exercised on its own (the const parameter N).
N == 2

\* Number of History calls explored after History::new.
MaxOps == 6

\* Number of History calls explored after History::with_initial.
MaxSeededOps == 3

\* Capacity of the History a Repl owns (the const parameter HISTORY_SIZE).
HISTORY_SIZE == 1

\* Longest current_input explored: characters are typed while it is shorter.
MaxInput == 1

\* Longest text explored: a key that would make it longer is not fed.
MaxText == 3

\* get_visible_text is applied to texts of at most MaxVisible characters
MaxVisible == 3

\* ... and to heights 0..MaxHeight
MaxHeight == 2

\* Width of Repl::cursor_pos (u16)
U16Bits == 16

----------------------------------------------------------------------------
(* Option, and the helpers the translation of the Rust code needs *)

None == <<>>

Some(x) == <<x>>

Min(a, b) == IF a < b THEN a ELSE b

\* usize::saturating_sub / u16::saturating_sub
saturating_sub(a, b) == IF a >= b THEN a - b ELSE 0

\* char::is_whitespace, on the characters the model draws from
is_whitespace(c) == c \in {" ", "\t", "\n"}

\* [T]::rotate_left(1)
rotate_left_1(s) == IF Len(s) = 0 THEN s ELSE Tail(s) \o <<Head(s)>>

----------------------------------------------------------------------------
(* History<N>: src/src/history.rs *)

\* Default::default() for History<n>
HistoryDefault(n) ==
    [len |-> 0, cur |-> None, stored_commands |-> [i \in 1..n |-> <<>>]]

\* History::new
new(n) == HistoryDefault(n)

\* History::CAPACITY
CAPACITY(h) == Len(h.stored_commands)

\* History::with_initial: zip the slots with the iterator, assign slot by slot
with_initial(n, initial) ==
    LET me == new(n)
    IN  [me EXCEPT !.stored_commands =
            [i \in 1..n |-> IF i <= Len(initial) THEN initial[i] ELSE me.stored_commands[i]]]

\* an early return that only rejects the empty command
push_rejects_only_empty(command) == Len(command) = 0

\* the early return of History::push
push_rejects(command) ==
    Len(command) = 0 \/ \A i \in 1..Len(command) : is_whitespace(command[i])

\* History::push reaches unreachable!()
push_unreachable(h, command) == ~push_rejects(command) /\ h.len > CAPACITY(h)

\* push that overwrites the newest slot at capacity instead of evicting the oldest
push_no_rotate(h, command) ==
    IF push_rejects(command) THEN h
    ELSE IF h.len = CAPACITY(h)
         THEN [h EXCEPT !.cur = None,
                        !.stored_commands = [h.stored_commands EXCEPT ![CAPACITY(h)] = command]]
    ELSE [h EXCEPT !.cur = None,
                   !.stored_commands = [h.stored_commands EXCEPT ![h.len + 1] = command],
                   !.len = h.len + 1]

\* History::push
push(h, command) ==
    IF push_rejects(command) THEN h
    ELSE IF h.len = CAPACITY(h)
         THEN [h EXCEPT !.cur = None,
                        !.stored_commands =
                            [rotate_left_1(h.stored_commands) EXCEPT ![CAPACITY(h)] = command]]
    ELSE IF h.len < CAPACITY(h)
         THEN [h EXCEPT !.cur = None,
                        !.stored_commands = [h.stored_commands EXCEPT ![h.len + 1] = command],
                        !.len = h.len + 1]
    ELSE [h EXCEPT !.cur = None]

\* pop that takes the oldest entry instead of the newest
pop_oldest(h) ==
    IF h.len = 0 \/ h.len > CAPACITY(h)
    THEN [h |-> [h EXCEPT !.cur = None], ret |-> None]
    ELSE [h |-> [h EXCEPT !.cur = None,
                          !.len = h.len - 1,
                          !.stored_commands = [h.stored_commands EXCEPT ![1] = <<>>]],
          ret |-> Some(h.stored_commands[1])]

\* History::pop: the history it leaves and the value it returns
pop(h) ==
    IF h.len = 0 \/ h.len > CAPACITY(h)
    THEN [h |-> [h EXCEPT !.cur = None], ret |-> None]
    ELSE [h |-> [h EXCEPT !.cur = None,
                          !.len = h.len - 1,
                          !.stored_commands = [h.stored_commands EXCEPT ![h.len] = <<>>]],
          ret |-> Some(h.stored_commands[h.len])]

\* History::get
get(h, idx) ==
    IF idx >= h.len THEN None
    ELSE IF idx < CAPACITY(h) THEN Some(h.stored_commands[idx + 1])
    ELSE None

\* History::newest
newest(h) == IF h.len = 0 THEN None ELSE get(h, h.len - 1)

\* current that maps the cursor to len - cur instead of len - 1 - cur
current_off_by_one(h) ==
    IF h.len = 0 THEN None
    ELSE IF h.cur # None THEN get(h, saturating_sub(h.len, h.cur[1]))
    ELSE None

\* History::current
current(h) ==
    IF h.len = 0 THEN None
    ELSE IF h.cur # None THEN get(h, saturating_sub(h.len, h.cur[1] + 1))
    ELSE None

\* the cursor movement of History::prev
prev_cur(h) ==
    IF h.cur # None
    THEN (IF h.cur[1] + 1 < h.len THEN Some(h.cur[1] + 1) ELSE h.cur)
    ELSE Some(0)

\* History::prev: the history it leaves and the value it returns
prev(h) ==
    LET h2 == [h EXCEPT !.cur = prev_cur(h)]
    IN  [h |-> h2, ret |-> current(h2)]

\* next that leaves the cursor at 0 instead of clearing it
next_keeps_cursor(h) ==
    IF h.cur = Some(0)
    THEN [h |-> h, ret |-> None]
    ELSE IF h.cur # None
         THEN LET h2 == [h EXCEPT !.cur = Some(h.cur[1] - 1)]
              IN  [h |-> h2, ret |-> current(h2)]
    ELSE [h |-> h, ret |-> Some(<<>>)]

\* History::next: the history it leaves and the value it returns
next(h) ==
    IF h.cur = Some(0)
    THEN [h |-> [h EXCEPT !.cur = None], ret |-> None]
    ELSE IF h.cur # None
         THEN LET h2 == [h EXCEPT !.cur = Some(h.cur[1] - 1)]
              IN  [h |-> h2, ret |-> current(h2)]
    ELSE [h |-> h, ret |-> Some(<<>>)]

\* History::iter, collected
iter(h) == SubSeq(h.stored_commands, 1, Min(h.len, CAPACITY(h)))

----------------------------------------------------------------------------
(* The History exercised on its own, through its public methods *)

\* The commands the callers pass: empty, all whitespace, and two that are kept.
Commands == {<<>>, <<" ">>, <<"a">>, <<"b">>}

\* The argument lists given to with_initial: a, b, a, ... of every length up
\* to one more than the capacity, and one list holding a blank entry.
InitialSeq(k) == [i \in 1..k |-> IF i % 2 = 1 THEN <<"a">> ELSE <<"b">>]

InitialLists == {InitialSeq(k) : k \in 0..(N + 1)} \cup {<<<<"b">>, <<" ">>>>}

\* The initial state of a Repl's own fields (Repl::new_with_history).
ReplFresh ==
    /\ current_input = <<>>
    /\ cursor_pos = 0
    /\ text = <<>>
    /\ key = [code |-> "None", ch |-> "", modifiers |-> "NONE"]
    /\ exec = <<>>
    /\ result = "None"

\* No run_fullscreen is under way and get_visible_text has not been called.
EnvIdle ==
    /\ pc = "idle"
    /\ raw_mode = FALSE
    /\ alt_screen = FALSE
    /\ loop_ret = "none"
    /\ full_ret = "none"
    /\ view_text = <<>>
    /\ view_height = 0
    /\ view_out = <<>>

InitHistory ==
    /\ history = new(N)
    /\ ctor = [op |-> "new", initial |-> <<>>]
    /\ trace = <<>>
    /\ ReplFresh
    /\ EnvIdle

\* A further call is explored while the trace is short enough.
MayCall ==
    Len(trace) < (IF ctor.op = "new" THEN MaxOps ELSE MaxSeededOps)

Called(op, arg, ret) ==
    trace' = Append(trace, [op |-> op, arg |-> arg, ret |-> ret, pre |-> history])

CallNew ==
    /\ history' = new(N)
    /\ ctor' = [op |-> "new", initial |-> <<>>]
    /\ trace' = <<>>
    /\ UNCHANGED <<replVars, envVars>>

CallWithInitial ==
    \E initial \in InitialLists :
        /\ history' = with_initial(N, initial)
        /\ ctor' = [op |-> "with_initial", initial |-> initial]
        /\ trace' = <<>>
        /\ UNCHANGED <<replVars, envVars>>

CallPush ==
    \E command \in Commands :
        /\ MayCall
        /\ ~push_unreachable(history, command)
        /\ history' = push(history, command)
        /\ Called("push", command, None)
        /\ UNCHANGED <<ctor, replVars, envVars>>

CallPop ==
    /\ MayCall
    /\ history' = pop(history).h
    /\ Called("pop", <<>>, pop(history).ret)
    /\ UNCHANGED <<ctor, replVars, envVars>>

CallPrev ==
    /\ MayCall
    /\ history' = prev(history).h
    /\ Called("prev", <<>>, prev(history).ret)
    /\ UNCHANGED <<ctor, replVars, envVars>>

CallNext ==
    /\ MayCall
    /\ history' = next(history).h
    /\ Called("next", <<>>, next(history).ret)
    /\ UNCHANGED <<ctor, replVars, envVars>>

NextHistory ==
    \/ CallNew
    \/ CallWithInitial
    \/ CallPush
    \/ CallPop
    \/ CallPrev
    \/ CallNext

SpecHistory == InitHistory /\ [][NextHistory]_vars

\* The history as call number i of the trace left it.
After(i) == IF i = Len(trace) THEN history ELSE trace[i + 1].pre

\* Calls i..j of the trace are all calls of `op`.
AllOp(i, j, op) == \A m \in i..j : trace[m].op = op

\* push never reaches its unreachable!() arm.
PushNeverUnreachable == \A command \in Commands : ~push_unreachable(history, command)

----------------------------------------------------------------------------
(* Claims about the History *)

\* An entry that is empty or consists of whitespace only.
Blank(command) == \A i \in 1..Len(command) : command[i] \in {" ", "\t", "\n"}

\* Calls i..j of the trace are all pushes of entries that are not blank.
AllKeptPush(i, j) == \A m \in i..j : trace[m].op = "push" /\ ~Blank(trace[m].arg)

\* The arguments of calls 1..n of the trace, in call order.
Pushed(n) == [m \in 1..n |-> trace[m].arg]

\* The last k elements of s.
LastOf(s, k) == SubSeq(s, Len(s) - k + 1, Len(s))

\* The entry at position p counted from the oldest (0), nothing if there is none.
EntryAt(h, p) == IF p >= 0 THEN get(h, p) ELSE None

\* C3: after any sequence of pushes of non-blank entries onto a new ring of
\* capacity N, also one longer than N, iterating yields exactly the
\* min(N, number pushed) most recently pushed entries, oldest first.
C3_IterYieldsMostRecent ==
    (ctor.op = "new" /\ AllKeptPush(1, Len(trace)))
        => iter(history) = LastOf(Pushed(Len(trace)), Min(N, Len(trace)))

\* C3 witness: more than N entries were pushed, the first differs from the
\* second, and the ring is full.
C3_Witness ==
    /\ ctor.op = "new"
    /\ Len(trace) = N + 1
    /\ AllKeptPush(1, Len(trace))
    /\ trace[1].arg # trace[2].arg
    /\ history.len = N
    /\ iter(history)[1] = trace[2].arg

\* C4: in every state reached by new, push, pop, prev and next calls the
\* navigation cursor is absent or strictly less than len.
C4_CursorBelowLen ==
    ctor.op = "new" => (history.cur = None \/ history.cur[1] < history.len)

\* C5: with_initial(entries) yields a ring holding the first min(N, |entries|)
\* entries in argument order: len is that count, and get, newest and iter
\* return those entries.
C5_WithInitialPopulates ==
    (ctor.op = "with_initial" /\ trace = <<>>) =>
        LET n == Min(N, Len(ctor.initial))
        IN  /\ history.len = n
            /\ iter(history) = SubSeq(ctor.initial, 1, n)
            /\ \A i \in 0..(n - 1) : get(history, i) = Some(ctor.initial[i + 1])
            /\ newest(history) = (IF n = 0 THEN None ELSE Some(ctor.initial[n]))

\* The trace ends with k calls of prev, the first made with the cursor absent.
EndsWithPrevRun(k) ==
    /\ k >= 1
    /\ k <= Len(trace)
    /\ AllOp(Len(trace) - k + 1, Len(trace), "prev")
    /\ trace[Len(trace) - k + 1].pre.cur = None

\* C6 as stated: from an absent cursor, after k calls of prev with k <= len,
\* current() returns the entry at position len - 1 - k.
C6_PrevRunAtLenMinusOneMinusK ==
    \A k \in 1..Len(trace) :
        (EndsWithPrevRun(k) /\ k <= history.len)
            => current(history) = EntryAt(history, history.len - 1 - k)

\* C6 amended: from an absent cursor, after k calls of prev with
\* 1 <= k <= len, current() returns the entry at position len - k.
C6_PrevRunAtLenMinusK ==
    \A k \in 1..Len(trace) :
        (EndsWithPrevRun(k) /\ k <= history.len)
            => /\ current(history) = EntryAt(history, history.len - k)
               /\ current(history) # None

\* C6 witness: two calls of prev on a ring of two different entries end on
\* the oldest one.
C6_Witness ==
    /\ EndsWithPrevRun(2)
    /\ history.len = 2
    /\ history.stored_commands[1] # history.stored_commands[2]
    /\ current(history) = Some(history.stored_commands[1])

C8_BlankPushIsNoOp ==
    \A i \in 1..Len(trace) :
        (trace[i].op = "push" /\ Blank(trace[i].arg)) => After(i) = trace[i].pre

\* C8 witness: a whitespace entry was pushed onto a full ring while navigating.
C8_Witness ==
    /\ Len(trace) >= 1
    /\ trace[Len(trace)].op = "push"
    /\ trace[Len(trace)].arg = <<" ">>
    /\ trace[Len(trace)].pre.len = N
    /\ trace[Len(trace)].pre.cur # None
    /\ history.cur # None

\* The trace is n pushes of non-blank entries onto a new ring followed by
\* m calls of pop, and nothing else.
PushesThenPops(n, m) ==
    /\ ctor.op = "new"
    /\ Len(trace) = n + m
    /\ AllKeptPush(1, n)
    /\ AllOp(n + 1, n + m, "pop")

\* C9 as stated: after n pushes of non-blank entries onto an empty ring, n
\* calls of pop return the pushed entries in reverse insertion order and one
\* more returns nothing; every pop leaves the cursor absent.
C9_PopsReturnAllPushed ==
    \A n \in 0..Len(trace) :
        LET m == Len(trace) - n
        IN  (m >= 1 /\ m <= n + 1 /\ PushesThenPops(n, m)) =>
                /\ trace[n + m].ret = (IF m <= n THEN Some(trace[n - m + 1].arg) ELSE None)
                /\ history.cur = None

\* C9 amended: after n pushes of non-blank entries onto an empty ring of
\* capacity N, the first min(n, N) calls of pop return the min(n, N) most
\* recently pushed entries in reverse insertion order and the next one returns
\* nothing; every pop, in any state, leaves the cursor absent.
C9_PopsReturnRetained ==
    /\ \A n \in 0..Len(trace) :
        LET m == Len(trace) - n
            kept == Min(n, N)
        IN  (m >= 1 /\ m <= kept + 1 /\ PushesThenPops(n, m)) =>
                trace[n + m].ret = (IF m <= kept THEN Some(trace[n - m + 1].arg) ELSE None)
    /\ \A i \in 1..Len(trace) : trace[i].op = "pop" => After(i).cur = None

\* C9 witness: two different entries were pushed and both popped, the newer
\* first, and a third pop returned nothing.
C9_Witness ==
    /\ PushesThenPops(2, 3)
    /\ trace[1].arg # trace[2].arg
    /\ trace[3].ret = Some(trace[2].arg)
    /\ trace[4].ret = Some(trace[1].arg)
    /\ trace[5].ret = None

----------------------------------------------------------------------------
(* Repl<HISTORY_SIZE>: src/src/lib.rs *)

\* u16::MAX
U16Max == (2 ^ U16Bits) - 1

\* `as u16` of a usize
as_u16(n) == n % (2 ^ U16Bits)

\* u16::saturating_add
saturating_add(a, b) == Min(a + b, U16Max)

\* Ord::clamp
clamp(x, lo, hi) == IF x < lo THEN lo ELSE IF x > hi THEN hi ELSE x

\* Vec::insert, index counted from 0
insert(s, idx, c) == SubSeq(s, 1, idx) \o <<c>> \o SubSeq(s, idx + 1, Len(s))

\* Vec::remove, index counted from 0
remove(s, idx) == SubSeq(s, 1, idx) \o SubSeq(s, idx + 2, Len(s))

\* char::to_uppercase, on the characters the model draws from
to_uppercase(c) == IF c = "a" THEN <<"A">> ELSE <<c>>

\* an unwrap_or that drops the entry it is handed
unwrap_or_empty_drops(opt) == <<>>

\* Option::unwrap_or(&[]) and the copy into a Vec
unwrap_or_empty(opt) == IF opt = None THEN <<>> ELSE opt[1]

\* Repl::set_cursor_pos: the cursor_pos it leaves
set_cursor_pos(input, pos) == clamp(pos, 0, as_u16(Len(input)))

\* The key events fed to a Repl.  The first group matches an arm of
\* feed_key_event, the second matches none.
Key(code, ch, modifiers) == [code |-> code, ch |-> ch, modifiers |-> modifiers]

KeyEvents ==
    { Key("Char", c, "CONTROL") : c \in {"d", "q", "x", "c"} }
    \cup { Key(code, "", "NONE") :
            code \in {"Up", "Down", "Left", "Right", "Home", "End",
                      "Backspace", "Delete", "Enter"} }
    \cup { Key(code, "", "SHIFT") : code \in {"Home", "End", "Backspace", "Enter"} }
    \cup { Key("Char", "a", "NONE"), Key("Char", "a", "SHIFT") }
    \cup { Key("Char", "a", "ALT"), Key("Up", "", "CONTROL"),
           Key("Backspace", "", "CONTROL"), Key("Delete", "", "SHIFT"),
           Key("Tab", "", "NONE") }

\* What a CommandExecutor may do with the buffer it is handed, and what it
\* returns: leave it, append to it or truncate it, and Ok or an io::Error.
ExecutorRuns ==
    { [edit |-> "keep", ok |-> TRUE], [edit |-> "push", ok |-> TRUE],
      [edit |-> "truncate", ok |-> TRUE], [edit |-> "keep", ok |-> FALSE] }

\* CommandExecutor::execute on the buffer
execute(run, repl_buffer) ==
    CASE run.edit = "keep" -> repl_buffer
      [] run.edit = "push" -> Append(repl_buffer, "\n")
      [] run.edit = "truncate" -> <<>>

\* feed_key_event is called with key k; no call follows a panic.
Fed(k) ==
    /\ result # "Panic"
    /\ key' = k

\* The call invoked the executor once, with this command and this buffer,
\* and the executor ran as `run` (ok: it returned Ok); the `?` hands an Err
\* to the caller.
Executed(command, repl_buffer, run) ==
    /\ Len(execute(run, repl_buffer)) <= MaxText
    /\ exec' = <<[command |-> command, repl_buffer |-> repl_buffer, ok |-> run.ok]>>
    /\ text' = execute(run, repl_buffer)
    /\ result' = IF run.ok THEN "Continue" ELSE "Err"

\* The call invoked no executor and returned Ok(Continue).
Continued ==
    /\ exec' = <<>>
    /\ result' = "Continue"

\* The call panicked: an index computed from cursor_pos is out of bounds.
Panicked ==
    /\ exec' = <<>>
    /\ result' = "Panic"
    /\ UNCHANGED <<current_input, cursor_pos, text, history>>

\* Ctrl + d, q or x
FeedQuit ==
    \E k \in KeyEvents :
        /\ k.code = "Char" /\ k.ch \in {"d", "q", "x"} /\ k.modifiers = "CONTROL"
        /\ Fed(k)
        /\ exec' = <<>>
        /\ result' = "Break"
        /\ UNCHANGED <<current_input, cursor_pos, text, history>>

\* a Ctrl + c that hands the executor the cancelled line as its command
FeedCancel_with_input ==
    \E k \in KeyEvents, run \in ExecutorRuns :
        /\ k.code = "Char" /\ k.ch = "c" /\ k.modifiers = "CONTROL"
        /\ Fed(k)
        /\ current_input' = <<>>
        /\ cursor_pos' = 0
        /\ Executed(current_input, text \o current_input \o <<"^", "C">>, run)
        /\ UNCHANGED history

\* Ctrl + c
FeedCancel ==
    \E k \in KeyEvents, run \in ExecutorRuns :
        /\ k.code = "Char" /\ k.ch = "c" /\ k.modifiers = "CONTROL"
        /\ Fed(k)
        /\ current_input' = <<>>
        /\ cursor_pos' = 0
        /\ Executed(<<>>, text \o current_input \o <<"^", "C">>, run)
        /\ UNCHANGED history

\* Up or Down
FeedUpDown ==
    \E k \in KeyEvents :
        /\ k.code \in {"Up", "Down"} /\ k.modifiers = "NONE"
        /\ Fed(k)
        /\ LET r == IF k.code = "Up" THEN prev(history) ELSE next(history)
           IN  /\ history' = r.h
               /\ current_input' = unwrap_or_empty(r.ret)
        /\ Continued
        /\ UNCHANGED <<cursor_pos, text>>

\* Right
FeedRight ==
    \E k \in KeyEvents :
        /\ k.code = "Right" /\ k.modifiers = "NONE"
        /\ Fed(k)
        /\ cursor_pos' = set_cursor_pos(current_input, saturating_sub(cursor_pos, 1))
        /\ Continued
        /\ UNCHANGED <<current_input, text, history>>

\* Left
FeedLeft ==
    \E k \in KeyEvents :
        /\ k.code = "Left" /\ k.modifiers = "NONE"
        /\ Fed(k)
        /\ cursor_pos' = set_cursor_pos(current_input, saturating_add(cursor_pos, 1))
        /\ Continued
        /\ UNCHANGED <<current_input, text, history>>

\* Home, any modifiers
FeedHome ==
    \E k \in KeyEvents :
        /\ k.code = "Home"
        /\ Fed(k)
        /\ cursor_pos' = set_cursor_pos(current_input, as_u16(Len(current_input)))
        /\ Continued
        /\ UNCHANGED <<current_input, text, history>>

\* End, any modifiers
FeedEnd ==
    \E k \in KeyEvents :
        /\ k.code = "End"
        /\ Fed(k)
        /\ cursor_pos' = set_cursor_pos(current_input, 0)
        /\ Continued
        /\ UNCHANGED <<current_input, text, history>>

\* the index an unmodified character is inserted at is out of bounds
char_index_fails(input, pos) == pos > Len(input)

\* a character, no modifier
FeedChar ==
    \E k \in KeyEvents :
        /\ k.code = "Char" /\ k.modifiers = "NONE"
        /\ Len(current_input) < MaxInput
        /\ Fed(k)
        /\ IF char_index_fails(current_input, cursor_pos)
           THEN Panicked
           ELSE /\ current_input' = insert(current_input, Len(current_input) - cursor_pos, k.ch)
                /\ Continued
                /\ UNCHANGED <<cursor_pos, text, history>>

\* the characters of `upper` inserted one after the other, each at index pos
RECURSIVE insert_each(_, _, _)
insert_each(input, pos, upper) ==
    IF upper = <<>> THEN input
    ELSE insert_each(insert(input, pos, Head(upper)), pos, Tail(upper))

\* the index a Shift-modified character is inserted at is out of bounds
shift_index_fails(input, pos) == pos > Len(input)

\* a character, Shift
FeedShiftChar ==
    \E k \in KeyEvents :
        /\ k.code = "Char" /\ k.modifiers = "SHIFT"
        /\ Len(current_input) + Len(to_uppercase(k.ch)) <= MaxInput
        /\ Fed(k)
        /\ IF shift_index_fails(current_input, cursor_pos)
           THEN Panicked
           ELSE /\ current_input' = insert_each(current_input, cursor_pos, to_uppercase(k.ch))
                /\ Continued
                /\ UNCHANGED <<cursor_pos, text, history>>

\* a Backspace arm that also moves cursor_pos, as Delete does
FeedBackspace_moves_cursor ==
    \E k \in KeyEvents :
        /\ k.code = "Backspace" /\ k.modifiers \in {"NONE", "SHIFT"}
        /\ Fed(k)
        /\ LET clamped == set_cursor_pos(current_input, cursor_pos)
               rm_idx == Len(current_input) - clamped
           IN  /\ cursor_pos' = saturating_sub(clamped, 1)
               /\ current_input' = IF rm_idx # 0 THEN remove(current_input, rm_idx - 1)
                                    ELSE current_input
        /\ Continued
        /\ UNCHANGED <<text, history>>

\* Backspace, no modifier or Shift
FeedBackspace ==
    \E k \in KeyEvents :
        /\ k.code = "Backspace" /\ k.modifiers \in {"NONE", "SHIFT"}
        /\ Fed(k)
        /\ cursor_pos' = set_cursor_pos(current_input, cursor_pos)
        /\ LET rm_idx == Len(current_input) - cursor_pos'
           IN  current_input' = IF rm_idx # 0 THEN remove(current_input, rm_idx - 1)
                                ELSE current_input
        /\ Continued
        /\ UNCHANGED <<text, history>>

\* a Delete arm that matches any modifiers
FeedDelete_any_modifiers ==
    \E k \in KeyEvents :
        /\ k.code = "Delete"
        /\ Fed(k)
        /\ LET clamped == set_cursor_pos(current_input, cursor_pos)
           IN  IF clamped # 0
               THEN /\ current_input' = remove(current_input, Len(current_input) - clamped)
                    /\ cursor_pos' = saturating_sub(clamped, 1)
               ELSE /\ current_input' = current_input
                    /\ cursor_pos' = clamped
        /\ Continued
        /\ UNCHANGED <<text, history>>

\* a Delete arm that removes the character and keeps cursor_pos
FeedDelete_keeps_cursor ==
    \E k \in KeyEvents :
        /\ k.code = "Delete" /\ k.modifiers = "NONE"
        /\ Fed(k)
        /\ LET clamped == set_cursor_pos(current_input, cursor_pos)
           IN  IF clamped # 0
               THEN /\ current_input' = remove(current_input, Len(current_input) - clamped)
                    /\ cursor_pos' = clamped
               ELSE /\ current_input' = current_input
                    /\ cursor_pos' = clamped
        /\ Continued
        /\ UNCHANGED <<text, history>>

\* Delete, no modifier
FeedDelete ==
    \E k \in KeyEvents :
        /\ k.code = "Delete" /\ k.modifiers = "NONE"
        /\ Fed(k)
        /\ LET clamped == set_cursor_pos(current_input, cursor_pos)
           IN  IF clamped # 0
               THEN /\ current_input' = remove(current_input, Len(current_input) - clamped)
                    /\ cursor_pos' = saturating_sub(clamped, 1)
               ELSE /\ current_input' = current_input
                    /\ cursor_pos' = clamped
        /\ Continued
        /\ UNCHANGED <<text, history>>

\* submit that drains current_input before appending it to text
submit_drains_first(run) ==
    /\ cursor_pos' = set_cursor_pos(current_input, 0)
    /\ ~push_unreachable(history, current_input)
    /\ history' = push(history, current_input)
    /\ current_input' = <<>>
    /\ Executed(current_input, text, run)

\* Repl::submit
submit(run) ==
    /\ cursor_pos' = set_cursor_pos(current_input, 0)
    /\ ~push_unreachable(history, current_input)
    /\ history' = push(history, current_input)
    /\ current_input' = <<>>
    /\ Executed(current_input, text \o current_input, run)

\* Enter, no modifier or Shift
FeedEnter ==
    \E k \in KeyEvents, run \in ExecutorRuns :
        /\ k.code = "Enter" /\ k.modifiers \in {"NONE", "SHIFT"}
        /\ Fed(k)
        /\ submit(run)

\* the key matches one of the arms above
matches_an_arm(k) ==
    \/ k.code = "Char" /\ k.ch \in {"d", "q", "x", "c"} /\ k.modifiers = "CONTROL"
    \/ k.code \in {"Up", "Down", "Left", "Right", "Delete"} /\ k.modifiers = "NONE"
    \/ k.code \in {"Home", "End"}
    \/ k.code = "Char" /\ k.modifiers \in {"NONE", "SHIFT"}
    \/ k.code \in {"Backspace", "Enter"} /\ k.modifiers \in {"NONE", "SHIFT"}

\* any other key
FeedOther ==
    \E k \in KeyEvents :
        /\ ~matches_an_arm(k)
        /\ Fed(k)
        /\ Continued
        /\ UNCHANGED <<current_input, cursor_pos, text, history>>

Init ==
    /\ history = new(HISTORY_SIZE)
    /\ ctor = [op |-> "new", initial |-> <<>>]
    /\ trace = <<>>
    /\ ReplFresh
    /\ EnvIdle

Next ==
    \/ FeedQuit /\ UNCHANGED <<ctor, trace, envVars>>
    \/ FeedCancel /\ UNCHANGED <<ctor, trace, envVars>>
    \/ FeedUpDown /\ UNCHANGED <<ctor, trace, envVars>>
    \/ FeedRight /\ UNCHANGED <<ctor, trace, envVars>>
    \/ FeedLeft /\ UNCHANGED <<ctor, trace, envVars>>
    \/ FeedHome /\ UNCHANGED <<ctor, trace, envVars>>
    \/ FeedEnd /\ UNCHANGED <<ctor, trace, envVars>>
    \/ FeedChar /\ UNCHANGED <<ctor, trace, envVars>>
    \/ FeedShiftChar /\ UNCHANGED <<ctor, trace, envVars>>
    \/ FeedBackspace /\ UNCHANGED <<ctor, trace, envVars>>
    \/ FeedDelete /\ UNCHANGED <<ctor, trace, envVars>>
    \/ FeedEnter /\ UNCHANGED <<ctor, trace, envVars>>
    \/ FeedOther /\ UNCHANGED <<ctor, trace, envVars>>

Spec == Init /\ [][Next]_vars

----------------------------------------------------------------------------
(* Claims about the Repl *)

\* C1: in every state reached by feeding key events to a fresh Repl,
\* cursor_pos <= the length of current_input, also after Up and Down have
\* replaced current_input.
C1_CursorWithinInput == cursor_pos <= Len(current_input)

\* C2: no call of feed_key_event fails internally: every insertion or removal
\* index it computes lies within current_input, and no subtraction underflows.
C2_NoInternalFailure == result # "Panic"

\* C10: submit sets cursor_pos to 0, pushes a copy of current_input into the
\* history (a blank one is not stored), appends current_input to text and
\* empties current_input before the executor runs: the executor is invoked
\* exactly once, with the command equal to the current_input submit found
\* and a buffer equal to the text submit found followed by that input.
C10_SubmitThenExecute ==
    [][(key'.code = "Enter" /\ key'.modifiers \in {"NONE", "SHIFT"}) =>
        /\ cursor_pos' = 0
        /\ IF Blank(current_input)
           THEN history' = history
           ELSE /\ newest(history') = Some(current_input)
                /\ history'.cur = None
                /\ history'.len = Min(history.len + 1, HISTORY_SIZE)
        /\ current_input' = <<>>
        /\ Len(exec') = 1
        /\ exec'[1].command = current_input
        /\ exec'[1].repl_buffer = text \o current_input]_vars

\* C10 witness: with "A" in the text, the line "a" was submitted: the
\* executor got "a" and the buffer "Aa", and the history holds "a".
C10_Witness ==
    /\ key.code = "Enter"
    /\ Len(exec) = 1
    /\ exec[1].command = <<"a">>
    /\ exec[1].repl_buffer = <<"A", "a">>
    /\ newest(history) = Some(<<"a">>)
    /\ current_input = <<>>
    /\ cursor_pos = 0

----------------------------------------------------------------------------
(* Repl::run_fullscreen and Repl::run_on_terminal: src/src/lib.rs *)

\* feed_key_event: the arm the key matches
feed_key_event ==
    \/ FeedQuit
    \/ FeedCancel
    \/ FeedUpDown
    \/ FeedRight
    \/ FeedLeft
    \/ FeedHome
    \/ FeedEnd
    \/ FeedChar
    \/ FeedShiftChar
    \/ FeedBackspace
    \/ FeedDelete
    \/ FeedEnter
    \/ FeedOther

\* a loop that drops the Err of feed_key_event and reads on
loop_outcome_ignores_err(res) ==
    CASE res = "Break" -> "Ok"
      [] OTHER -> "none"

\* a loop that reads on after ControlFlow::Break
loop_outcome_never_breaks(res) ==
    CASE res = "Err" -> "Err"
      [] OTHER -> "none"

\* What run_on_terminal returns after feed_key_event returned res: the `?`
\* returns its Err, Break returns Ok(()), and "none" is another iteration.
loop_outcome(res) ==
    CASE res = "Break" -> "Ok"
      [] res = "Err" -> "Err"
      [] OTHER -> "none"

\* run_on_terminal returned r to run_fullscreen, whose `?` returns an Err at
\* once and goes on to restore the terminal after Ok.
LoopEnds(r) ==
    /\ loop_ret' = r
    /\ IF r = "Ok"
       THEN pc' = "disable_raw" /\ full_ret' = full_ret
       ELSE pc' = "returned" /\ full_ret' = r

\* run_fullscreen returns the Err of one of its own calls
Returns(err) ==
    /\ pc' = "returned"
    /\ full_ret' = err

\* crossterm::terminal::enable_raw_mode()?
EnableRawMode ==
    /\ pc = "idle"
    /\ \E ok \in BOOLEAN :
        IF ok THEN /\ raw_mode' = TRUE
                   /\ pc' = "enter"
                   /\ UNCHANGED full_ret
              ELSE /\ Returns("EnableRawErr")
                   /\ UNCHANGED raw_mode
    /\ UNCHANGED <<alt_screen, loop_ret, viewVars, replVars, historyVars>>

\* crossterm::execute!(stdout, EnterAlternateScreen, EnableMouseCapture)?;
\* a failure may come after the first command took effect
EnterAlternateScreen ==
    /\ pc = "enter"
    /\ \E ok \in BOOLEAN :
        IF ok THEN /\ alt_screen' = TRUE
                   /\ pc' = "terminal"
                   /\ UNCHANGED full_ret
              ELSE /\ alt_screen' \in BOOLEAN
                   /\ Returns("EnterErr")
    /\ UNCHANGED <<raw_mode, loop_ret, viewVars, replVars, historyVars>>

\* Terminal::new(backend)?
NewTerminal ==
    /\ pc = "terminal"
    /\ \E ok \in BOOLEAN :
        IF ok THEN pc' = "loop" /\ UNCHANGED full_ret
              ELSE Returns("TerminalErr")
    /\ UNCHANGED <<raw_mode, alt_screen, loop_ret, viewVars, replVars, historyVars>>

\* String::extend with the characters of a Vec<char>
extend(s, chars) == s \o chars

\* String::truncate
truncate(s, new_len) == IF new_len <= Len(s) THEN SubSeq(s, 1, new_len) ELSE s

\* a render that leaves the input it appended in the text
render_keeps_input(t, input) == extend(t, input)

\* Widget::render for &mut Repl: the text it leaves.  The input is appended,
\* the visible part of the result is handed to the Paragraph, and the text
\* is cut back to the length it had.
render(t, input) ==
    LET prev_len == Len(t)
        extended == extend(t, input)
    IN  truncate(extended, prev_len)

\* term.draw(..)? succeeds: cursor_pos_in reads the Repl, render runs on it
Draw ==
    /\ pc = "loop"
    /\ text' = render(text, current_input)
    /\ pc' = "read"
    /\ UNCHANGED <<current_input, cursor_pos, key, exec, result, historyVars,
                   raw_mode, alt_screen, loop_ret, full_ret, viewVars>>

\* term.draw(..)? fails
DrawFails ==
    /\ pc = "loop"
    /\ LoopEnds("DrawErr")
    /\ UNCHANGED <<raw_mode, alt_screen, viewVars, replVars, historyVars>>

\* event::read()? fails
ReadFails ==
    /\ pc = "read"
    /\ LoopEnds("ReadErr")
    /\ UNCHANGED <<raw_mode, alt_screen, viewVars, replVars, historyVars>>

\* event::read() returns an event that is no key event: the loop goes round
ReadOther ==
    /\ pc = "read"
    /\ pc' = "loop"
    /\ UNCHANGED <<raw_mode, alt_screen, loop_ret, full_ret, viewVars, replVars, historyVars>>

\* event::read() returns a key event, which is fed to feed_key_event
ReadKey ==
    /\ pc = "read"
    /\ feed_key_event
    /\ CASE result' = "Panic" -> pc' = "panicked" /\ UNCHANGED <<loop_ret, full_ret>>
         [] result' # "Panic" /\ loop_outcome(result') = "none" ->
                pc' = "loop" /\ UNCHANGED <<loop_ret, full_ret>>
         [] OTHER -> LoopEnds(loop_outcome(result'))
    /\ UNCHANGED <<raw_mode, alt_screen, viewVars, ctor, trace>>

\* crossterm::terminal::disable_raw_mode()?
DisableRawMode ==
    /\ pc = "disable_raw"
    /\ \E ok \in BOOLEAN :
        IF ok THEN /\ raw_mode' = FALSE
                   /\ pc' = "leave"
                   /\ UNCHANGED full_ret
              ELSE /\ Returns("DisableRawErr")
                   /\ UNCHANGED raw_mode
    /\ UNCHANGED <<alt_screen, loop_ret, viewVars, replVars, historyVars>>

\* crossterm::execute!(.., LeaveAlternateScreen, DisableMouseCapture)?
LeaveAlternateScreen ==
    /\ pc = "leave"
    /\ \E ok \in BOOLEAN :
        IF ok THEN /\ alt_screen' = FALSE
                   /\ pc' = "show_cursor"
                   /\ UNCHANGED full_ret
              ELSE /\ alt_screen' \in BOOLEAN
                   /\ Returns("LeaveErr")
    /\ UNCHANGED <<raw_mode, loop_ret, viewVars, replVars, historyVars>>

\* terminal.show_cursor()?; Ok(())
ShowCursor ==
    /\ pc = "show_cursor"
    /\ \E ok \in BOOLEAN : Returns(IF ok THEN "Ok" ELSE "ShowCursorErr")
    /\ UNCHANGED <<raw_mode, alt_screen, loop_ret, viewVars, replVars, historyVars>>

NextRun ==
    \/ EnableRawMode
    \/ EnterAlternateScreen
    \/ NewTerminal
    \/ Draw
    \/ DrawFails
    \/ ReadFails
    \/ ReadOther
    \/ ReadKey
    \/ DisableRawMode
    \/ LeaveAlternateScreen
    \/ ShowCursor

SpecRun == Init /\ [][NextRun]_vars

----------------------------------------------------------------------------
(* Claims about the run loop *)

\* C11: when the executor reports a failure, during submit or during Ctrl+C
\* handling, feed_key_event returns that failure, the run loop has stopped (it
\* reads no further key event) and its caller has received that failure.
C11_ExecutorFailureStopsLoop ==
    (Len(exec) = 1 /\ ~exec[1].ok) =>
        /\ key.code = "Enter" \/ (key.code = "Char" /\ key.ch = "c")
        /\ result = "Err"
        /\ pc = "returned"
        /\ loop_ret = "Err"
        /\ full_ret = "Err"

\* C11 witness: after "a" was typed, Ctrl+C was read, the executor failed and
\* the loop returned its failure.
C11_Witness ==
    /\ key = Key("Char", "c", "CONTROL")
    /\ Len(exec) = 1 /\ ~exec[1].ok
    /\ exec[1].repl_buffer = <<"a", "^", "C">>
    /\ loop_ret = "Err"

\* C12: whenever run_fullscreen returns after its run loop has ended, with
\* success or with the failure of the renderer, the event source or the
\* executor, raw mode and the alternate screen have been left (unless the
\* call that leaves them failed itself).
C12_TerminalRestoredOnReturn ==
    (pc = "returned" /\ loop_ret # "none" /\ full_ret \notin {"DisableRawErr", "LeaveErr"}) =>
        ~raw_mode /\ ~alt_screen

----------------------------------------------------------------------------
(* Claims about editing and navigating the input line *)

\* C13: an unmodified character is inserted at index
\* Len(current_input) - cursor_pos and leaves cursor_pos unchanged; Left adds
\* 1 to cursor_pos, saturating at Len(current_input); Right subtracts 1,
\* saturating at 0.
C13_CharLeftRight ==
    [][/\ (key'.code = "Char" /\ key'.modifiers = "NONE") =>
            /\ result' # "Panic"
            /\ current_input' =
                   insert(current_input, Len(current_input) - cursor_pos, key'.ch)
            /\ cursor_pos' = cursor_pos
       /\ (key'.code = "Left" /\ key'.modifiers = "NONE") =>
            cursor_pos' = Min(cursor_pos + 1, Len(current_input))
       /\ (key'.code = "Right" /\ key'.modifiers = "NONE") =>
            cursor_pos' = saturating_sub(cursor_pos, 1)]_vars

\* C14: Up and Down replace current_input with what prev() and next() return,
\* or with the empty line when they return nothing.  On Up right after a
\* non-blank line s was submitted, current_input becomes s, current() is s
\* and the navigation cursor is on the newest entry; Down from there empties
\* current_input and leaves the navigation cursor absent.
C14_UpDownNavigate ==
    [][/\ (key'.code = "Up" /\ key'.modifiers = "NONE") =>
            /\ history' = prev(history).h
            /\ current_input' =
                   (IF prev(history).ret = None THEN <<>> ELSE prev(history).ret[1])
            /\ (key.code = "Enter" /\ Len(exec) = 1 /\ ~Blank(exec[1].command)) =>
                    /\ current_input' = exec[1].command
                    /\ current(history') = Some(exec[1].command)
                    /\ history'.cur = Some(0)
       /\ (key'.code = "Down" /\ key'.modifiers = "NONE") =>
            /\ history' = next(history).h
            /\ current_input' =
                   (IF next(history).ret = None THEN <<>> ELSE next(history).ret[1])
            /\ history.cur = Some(0) =>
                    /\ current_input' = <<>>
                    /\ history'.cur = None]_vars

\* C14 witness: the line "a" was submitted and Up brought it back.
C14_Witness ==
    /\ key = Key("Up", "", "NONE")
    /\ text = <<"a">>
    /\ current_input = <<"a">>
    /\ current(history) = Some(<<"a">>)

----------------------------------------------------------------------------
(* get_visible_text: src/src/util.rs *)

\* Iterator::nth, counted from 0
nth(s, n) == IF n < Len(s) THEN Some(s[n + 1]) ELSE None

\* the offsets of the line breaks among the first n characters, scanned from
\* the front
RECURSIVE line_breaks_forward(_, _)
line_breaks_forward(txt, n) ==
    IF n = 0 THEN <<>>
    ELSE line_breaks_forward(txt, n - 1)
            \o (IF txt[n] = "\n" THEN <<n - 1>> ELSE <<>>)

\* text.char_indices().rev().filter_map(..): the offsets (from 0) of the line
\* breaks among the first n characters of txt, the last one first.  The
\* model's characters are one byte each, so byte offsets are positions.
RECURSIVE line_breaks(_, _)
line_breaks(txt, n) ==
    IF n = 0 THEN <<>>
    ELSE (IF txt[n] = "\n" THEN <<n - 1>> ELSE <<>>)
            \o line_breaks(txt, n - 1)

\* a first_line that stays on the line break it found
first_line_at_break(txt, max_height) ==
    LET found == nth(line_breaks(txt, Len(txt)), max_height)
    IN  IF found = None THEN 0 ELSE found[1]

\* line_breaks.nth(max_height).map(|n| n + 1).unwrap_or(0)
first_line(txt, max_height) ==
    LET found == nth(line_breaks(txt, Len(txt)), max_height)
    IN  IF found = None THEN 0 ELSE found[1] + 1

\* String::from(&text[first_line..])
get_visible_text(txt, max_height) ==
    SubSeq(txt, first_line(txt, max_height) + 1, Len(txt))

\* The texts and heights get_visible_text is applied to.
VisibleChars == {"a", "b", "\n"}

Texts == UNION { [1..n -> VisibleChars] : n \in 0..MaxVisible }

InitVisible ==
    /\ history = new(HISTORY_SIZE)
    /\ ctor = [op |-> "new", initial |-> <<>>]
    /\ trace = <<>>
    /\ ReplFresh
    /\ pc = "idle"
    /\ raw_mode = FALSE
    /\ alt_screen = FALSE
    /\ loop_ret = "none"
    /\ full_ret = "none"
    /\ view_text \in Texts
    /\ view_height \in 0..MaxHeight
    /\ view_out = <<>>

\* get_visible_text(view_text, view_height) is called
Apply ==
    /\ view_out = <<>>
    /\ view_out' = <<get_visible_text(view_text, view_height)>>
    /\ UNCHANGED <<view_text, view_height, runVars, replVars, historyVars>>

\* get_visible_text is called on what it returned, with the same height
Reapply ==
    /\ Len(view_out) = 1
    /\ view_out' = Append(view_out, get_visible_text(view_out[1], view_height))
    /\ UNCHANGED <<view_text, view_height, runVars, replVars, historyVars>>

NextVisible ==
    \/ Apply
    \/ Reapply

SpecVisible == InitVisible /\ [][NextVisible]_vars

\* the number of line breaks in s
RECURSIVE Breaks(_)
Breaks(s) == IF s = <<>> THEN 0 ELSE (IF Head(s) = "\n" THEN 1 ELSE 0) + Breaks(Tail(s))

\* C15: get_visible_text(text, h) is a suffix of text with at most h line
\* breaks; it is the whole text when text has fewer than h + 1 line breaks
\* (so a text without line breaks is returned unchanged), and otherwise it
\* starts right after the (h + 1)-th line break counted from the end.
C15_VisibleSuffix ==
    Len(view_out) >= 1 =>
        LET out == view_out[1]
            cut == Len(view_text) - Len(out)
        IN  /\ cut >= 0
            /\ out = SubSeq(view_text, cut + 1, Len(view_text))
            /\ Breaks(out) <= view_height
            /\ IF Breaks(view_text) < view_height + 1
               THEN out = view_text
               ELSE /\ cut >= 1
                    /\ view_text[cut] = "\n"
                    /\ Breaks(out) = view_height

\* C15 witness: of "a\nb" at height 0, the part after the line break is returned.
C15_Witness ==
    /\ view_text = <<"a", "\n", "b">>
    /\ view_height = 0
    /\ view_out = << <<"b">> >>

\* C16: get_visible_text applied, with the same height, to what it returned
\* returns it unchanged.
C16_VisibleIdempotent ==
    Len(view_out) = 2 => view_out[2] = view_out[1]

\* C16 witness: a text was cut to a shorter one that still has a line break,
\* and the second application returned the same.
C16_Witness ==
    /\ Len(view_out) = 2
    /\ view_out[1] # view_text
    /\ Breaks(view_out[1]) >= 1
    /\ view_out[2] = view_out[1]

----------------------------------------------------------------------------
(* Claims about Ctrl+C, the terminating keys, ignored keys and Delete *)

\* C17: Ctrl+C hands the executor, exactly once, the empty command and the
\* text followed by all of current_input and then "^C"; it sets cursor_pos to
\* 0, leaves current_input empty and pushes nothing into the history.
C17_CancelMovesInput ==
    [][key' = Key("Char", "c", "CONTROL") =>
        /\ Len(exec') = 1
        /\ exec'[1].command = <<>>
        /\ exec'[1].repl_buffer = text \o current_input \o <<"^", "C">>
        /\ cursor_pos' = 0
        /\ current_input' = <<>>
        /\ history' = history]_vars

\* C17 witness: the line "a" was cancelled: the executor, which returned Ok,
\* got the empty command and the buffer "a^C".
C17_Witness ==
    /\ key = Key("Char", "c", "CONTROL")
    /\ Len(exec) = 1 /\ exec[1].ok
    /\ exec[1].command = <<>>
    /\ exec[1].repl_buffer = <<"a", "^", "C">>
    /\ text = <<"a", "^", "C">>
    /\ current_input = <<>>
    /\ cursor_pos = 0

\* Ctrl + d, Ctrl + q and Ctrl + x
TerminatingKeys == { Key("Char", c, "CONTROL") : c \in {"d", "q", "x"} }

\* C18: on Ctrl+D, Ctrl+Q or Ctrl+X feed_key_event signals termination
\* without invoking the executor and without changing current_input,
\* cursor_pos, text or history; the run loop returns success on the first
\* such key, and it returns success after no other key.
C18_TerminatingKeys ==
    /\ [](key \in TerminatingKeys =>
            /\ result = "Break"
            /\ exec = <<>>
            /\ pc \notin {"loop", "read"}
            /\ loop_ret = "Ok")
    /\ [](loop_ret = "Ok" => key \in TerminatingKeys)
    /\ [][key' \in TerminatingKeys =>
            UNCHANGED <<current_input, cursor_pos, text, history>>]_vars

\* C18 witness: with "a" on the line, Ctrl+Q ended the loop and
\* run_fullscreen returned Ok.
C18_Witness ==
    /\ key = Key("Char", "q", "CONTROL")
    /\ current_input = <<"a">>
    /\ loop_ret = "Ok"
    /\ pc = "returned"
    /\ full_ret = "Ok"

\* key events that match no arm of feed_key_event
IgnoredKeys ==
    { Key("Char", "a", "ALT"), Key("Up", "", "CONTROL"),
      Key("Backspace", "", "CONTROL"), Key("Delete", "", "SHIFT"),
      Key("Tab", "", "NONE") }

\* C19: a key event that matches no arm (Alt+character, Ctrl+Up,
\* Ctrl+Backspace, Shift+Delete, Tab) leaves current_input, cursor_pos, text
\* and history unchanged, invokes no executor and does not signal
\* termination.
C19_IgnoredKeys ==
    [][key' \in IgnoredKeys =>
        /\ UNCHANGED <<current_input, cursor_pos, text, history>>
        /\ exec' = <<>>
        /\ result' = "Continue"]_vars

\* C19 witness: Shift+Delete was fed with the cursor before the "a" on the
\* line, and the "a" is still there.
C19_Witness ==
    /\ key = Key("Delete", "", "SHIFT")
    /\ current_input = <<"a">>
    /\ cursor_pos = 1
    /\ result = "Continue"

IsPrefix(a, b) == Len(a) <= Len(b) /\ SubSeq(b, 1, Len(a)) = a

\* C22: rendering leaves text exactly as it was (the input is appended only
\* for the duration of the call) and leaves current_input, cursor_pos and
\* history unchanged; and over the steps of the run loop text only grows by
\* appending: a step after which the old text is no prefix of the new one is
\* a key event whose handler handed the executor a buffer that extends the
\* old text, and the executor changed that buffer.
C22_RenderKeepsText ==
    [][/\ (pc = "loop" /\ pc' = "read") =>
            UNCHANGED <<text, current_input, cursor_pos, history>>
       /\ ~IsPrefix(text, text') =>
            /\ pc = "read"
            /\ Len(exec') = 1
            /\ IsPrefix(text, exec'[1].repl_buffer)
            /\ text' # exec'[1].repl_buffer]_vars

\* C22 witness: the session was drawn with "a" on the input line and "a" in
\* the text, and the text is still "a".
C22_Witness ==
    /\ pc = "read"
    /\ current_input = <<"a">>
    /\ text = <<"a">>

====
